---- MODULE Spec2Model ----
(***************************************************************************)
(* Model of backend/main.py: the FastAPI service that downloads the audio  *)
(* of a video (yt-dlp), transcribes it (Groq Whisper), summarises it       *)
(* (Groq LLM) and generates scripts from a transcript.                     *)
(*                                                                         *)
(* The handlers are `async def` coroutines that contain no `await`: every  *)
(* collaborator call is a synchronous call made on the event loop of the   *)
(* single uvicorn process started at the end of the file.  The variable    *)
(* `loop` is that event loop: it runs one handler at a time, from its      *)
(* first statement to its return or raise.                                 *)
(*                                                                         *)
(* Python values: None is the empty tuple <<>>, a present optional value x *)
(* is <<x>>; a str whose characters matter is a tuple of one-character     *)
(* strings; a dict or an API object is a function over the keys or         *)
(* attributes it has.                                                      *)
(***************************************************************************)
EXTENDS Integers, Sequences, FiniteSets, TLC

\* ------------------------------------------------------------------ bounds
NumReqs == 2            \* requests sent to the service in one behaviour
NumDirs == 2            \* directory names tempfile.mkdtemp can hand out

Reqs == 1..NumReqs
Dirs == 1..NumDirs

\* ------------------------------------------------------------ Python values
None == <<>>
Some(x) == <<x>>
NoReq == [kind |-> "none"]
NoDir == 0                                   \* temp_dir = None
NoOutcome == [status |-> 0]                  \* the handler has not returned or raised
NoFile == [stem |-> "", ext |-> ""]          \* audio_file = None
EmptyDict == [k \in {} |-> None]             \* {}
NoTranscription == [k \in {} |-> None]

DictGet(d, k) == IF k \in DOMAIN d THEN Some(d[k]) ELSE None
GetAttr(o, k, default) == IF k \in DOMAIN o THEN o[k] ELSE default

IsSpace(c) == c \in {" ", "\n", "\t"}

RECURSIVE LStrip(_)
LStrip(s) == IF s # <<>> /\ IsSpace(Head(s)) THEN LStrip(Tail(s)) ELSE s

RECURSIVE RStrip(_)
RStrip(s) ==
    IF s # <<>> /\ IsSpace(s[Len(s)]) THEN RStrip(SubSeq(s, 1, Len(s) - 1)) ELSE s

Strip(s) == RStrip(LStrip(s))

\* ------------------------------------------------------------------ inputs
Urls == {"", "https://v.example/1"}
SummaryStyles == {"brief"}
ErrTexts == {"unreachable", "no space left"}     \* str(e) of a collaborator's exception

TranscribeRequests ==
    [kind : {"transcribe"}, url : Urls, summary_style : SummaryStyles]

MetadataRequests == [kind : {"metadata"}, url : Urls]

ScriptTranscripts == {<<>>, <<"h", "i">>}
ScriptPrompts == {<<>>, <<"p">>}
ScriptTemplates == {"custom", "blog"}
ScriptRequests ==
    [kind : {"script"}, transcript : ScriptTranscripts, prompt : ScriptPrompts,
     template : ScriptTemplates]

\* what ydl.extract_info does for get_video_metadata: it returns the info dict of
\* the video, or raises
Infos == {[title |-> "T", thumbnail |-> "th", duration |-> 12, uploader |-> "ch"]}
MetadataResults ==
    [kind : {"ok"}, info : Infos] \cup [kind : {"Exception"}, info : {EmptyDict}]

\* files a download can leave in the working directory
AudioExts == {".mp3", ".m4a", ".wav", ".webm", ".opus", ".ogg"}
FileA == [stem |-> "a", ext |-> ".mp3"]
FileB == [stem |-> "b", ext |-> ".webm"]
FileC == [stem |-> "c", ext |-> ".part"]
DownloadedFiles == {{}, {FileC}, {FileA, FileC}, {FileA, FileB}}

\* verbose_json answers of the transcription service (times in milliseconds)
Segment1 == [start |-> 0, end |-> 2500, text |-> <<" ", "h", "i">>]
Transcriptions ==
    { [text |-> <<"h", "i", " ">>, language |-> "en", duration |-> 12346,
       segments |-> <<Segment1>>],
      [text |-> <<" ">>, language |-> "en", duration |-> 0, segments |-> <<>>],
      [text |-> <<"h", "i">>] }

Summaries == {<<"s", " ">>}
Scripts == {<<"x", " ">>}

\* ------------------------------------------------------------------- state
VARIABLES
    pc,             \* per request: where its handler is
    req,            \* per request: the request body
    loop,           \* the request whose handler the event loop is running, or 0
    client,         \* the module-level Groq client
    cookies,        \* the file at COOKIES_FILE: "absent", "startup" or "updated"
    fs,             \* per directory name: does it exist, and its files
    creator,        \* per directory name: the request that created what exists there
    users,          \* per directory name: requests that created, read, wrote or removed it
    unremoved,      \* per directory name: did a shutil.rmtree of it fail
    metadata,       \* local of transcribe_video
    temp_dir,       \* local of transcribe_video
    audio_file,     \* local of transcribe_video
    transcription,  \* local of transcribe_video
    listing,        \* local of transcribe_video: what os.listdir returned
    summary,        \* local of transcribe_video
    outcome,        \* what the try block of transcribe_video returns or raises
    response,       \* what the handler returned or raised: the HTTP response
    trace,          \* per request: the stages entered, in order
    dl,             \* per request: how ydl.download ended
    rmAttempts,     \* per request: calls of shutil.rmtree
    rmFailed,       \* per request: did shutil.rmtree raise
    fault,          \* per request: the exception that reached the except clauses
    sm,             \* per request: how the summarizer's call ended
    md,             \* per request: how the metadata fetch ended
    call,           \* generate_script taken alone: its arguments
    messages,       \* generate_script taken alone: the messages it sends
    seconds,        \* the formatters taken alone: their argument, in milliseconds
    stamps,         \* the formatters taken alone: the strings they return
    segments,       \* the encoders taken alone: the segments to export
    lines,          \* the encoders taken alone: the list of lines of the latest call
    exports         \* the encoders taken alone: what each call so far gave its caller

vars == <<pc, req, loop, client, cookies, fs, creator, users, unremoved, metadata, temp_dir,
          listing, audio_file, transcription, summary, outcome, response, trace, dl,
          rmAttempts, rmFailed, fault, sm, md, call, messages,
          seconds, stamps, segments, lines, exports>>

locals == <<metadata, temp_dir, listing, audio_file, transcription, summary>>
ghosts == <<trace, dl, rmAttempts, rmFailed, fault, sm, md>>
shared == <<client, cookies>>
disk == <<fs, creator, users, unremoved>>
script == <<call, messages>>
times == <<seconds, stamps>>
encoding == <<segments, lines, exports>>
alone == <<script, times, encoding>>
server == <<pc, req, loop, shared, disk, locals, outcome, response, ghosts>>

NoDirEntry == [exists |-> FALSE, files |-> {}]

InitServer ==
    /\ pc = [r \in Reqs |-> "idle"]
    /\ req = [r \in Reqs |-> NoReq]
    /\ loop = 0
    /\ client = "Groq"
    /\ cookies \in {"absent", "startup"}
    /\ fs = [d \in Dirs |-> NoDirEntry]
    /\ creator = [d \in Dirs |-> 0]
    /\ users = [d \in Dirs |-> {}]
    /\ unremoved = [d \in Dirs |-> FALSE]
    /\ metadata = [r \in Reqs |-> EmptyDict]
    /\ temp_dir = [r \in Reqs |-> NoDir]
    /\ listing = [r \in Reqs |-> None]
    /\ audio_file = [r \in Reqs |-> NoFile]
    /\ transcription = [r \in Reqs |-> NoTranscription]
    /\ summary = [r \in Reqs |-> <<>>]
    /\ outcome = [r \in Reqs |-> NoOutcome]
    /\ response = [r \in Reqs |-> NoOutcome]
    /\ trace = [r \in Reqs |-> <<>>]
    /\ dl = [r \in Reqs |-> <<>>]
    /\ rmAttempts = [r \in Reqs |-> 0]
    /\ rmFailed = [r \in Reqs |-> FALSE]
    /\ fault = [r \in Reqs |-> None]
    /\ sm = [r \in Reqs |-> <<>>]
    /\ md = [r \in Reqs |-> <<>>]

NoCall == [transcript |-> <<>>, prompt |-> <<>>, template |-> None]

InitScriptIdle == call = NoCall /\ messages = None
InitTimesIdle == seconds = 0 /\ stamps = None
InitEncodingIdle == segments = <<>> /\ lines = <<>> /\ exports = <<>>

Init ==
    /\ InitServer
    /\ InitScriptIdle
    /\ InitTimesIdle
    /\ InitEncodingIdle

\* ------------------------------------------------- helpers of the handlers

\* fault: 'cookiefile' is set without the os.path.exists test
get_ydl_opts_always(ck) ==
    [k \in {"noplaylist", "quiet", "no_warnings"} |-> "True"]
        @@ ("cookiefile" :> "/tmp/cookies.txt")

\* get_ydl_opts(): the common options, with 'cookiefile' only when the file exists
get_ydl_opts(ck) ==
    LET opts == [k \in {"noplaylist", "quiet", "no_warnings"} |-> "True"]
    IN  IF ck # "absent" THEN opts @@ ("cookiefile" :> "/tmp/cookies.txt") ELSE opts

\* A YoutubeDL object given 'cookiefile' loads the jar from that file and dumps the
\* jar back to it when the `with` block exits (the reason the module copies the
\* cookies to a writable place): the file is rewritten, with the same or new content.
SavedCookies(opts, ck) ==
    IF "cookiefile" \in DOMAIN opts
    THEN IF ck = "absent" THEN {"updated"} ELSE {ck, "updated"}
    ELSE {ck}

\* fault: the dict of defaults is returned when extract_info raised
get_video_metadata_defaults(res) ==
    [title |-> GetAttr(res.info, "title", "Unknown"),
     thumbnail |-> GetAttr(res.info, "thumbnail", ""),
     duration |-> GetAttr(res.info, "duration", 0),
     channel |-> GetAttr(res.info, "uploader", GetAttr(res.info, "channel", "Unknown"))]

\* get_video_metadata: four fields of the info dict, {} when extract_info raised
get_video_metadata(res) ==
    IF res.kind = "ok"
    THEN [title |-> GetAttr(res.info, "title", "Unknown"),
          thumbnail |-> GetAttr(res.info, "thumbnail", ""),
          duration |-> GetAttr(res.info, "duration", 0),
          channel |-> GetAttr(res.info, "uploader", GetAttr(res.info, "channel", "Unknown"))]
    ELSE EmptyDict

\* exceptions
HTTPException(status_code, detail) ==
    [type |-> "HTTPException", status |-> status_code, detail |-> detail]
Raised(type, text) == [type |-> type, text |-> text]

\* fault: `except Exception` around ydl.download instead of DownloadError
DownloadExcept_any(exc) ==
    HTTPException(400, <<"Failed to download video: ", exc.text>>)

\* fault: no except clause for DownloadError
DownloadExcept_missing(exc) == exc

\* except yt_dlp.utils.DownloadError around ydl.download
DownloadExcept(exc) ==
    IF exc.type = "DownloadError"
    THEN HTTPException(400, <<"Failed to download video: ", exc.text>>)
    ELSE exc

\* fault: the failure of a stage is returned as a result with success false
TranscribeExcept_asResult(exc) ==
    IF exc.type = "HTTPException"
    THEN [status |-> exc.status, detail |-> exc.detail]
    ELSE [status |-> 200, body |-> [success |-> FALSE, error |-> exc.text]]

\* fault: no `except HTTPException: raise` before `except Exception`
TranscribeExcept_rewraps(exc) ==
    [status |-> 500,
     detail |-> <<"Transcription failed: ",
                  IF exc.type = "HTTPException" THEN "HTTPException" ELSE exc.text>>]

\* the except clauses of transcribe_video: an HTTPException is re-raised as it is,
\* any other Exception becomes a 500
TranscribeExcept(exc) ==
    IF exc.type = "HTTPException"
    THEN [status |-> exc.status, detail |-> exc.detail]
    ELSE [status |-> 500, detail |-> <<"Transcription failed: ", exc.text>>]

\* fault: the generator's exception is swallowed and an empty script returned
ScriptExcept_swallows(exc) ==
    IF exc.type = "HTTPException"
    THEN [status |-> exc.status, detail |-> exc.detail]
    ELSE [status |-> 200, body |-> [success |-> TRUE, script |-> <<>>]]

\* the except clauses of get_metadata
MetadataExcept(exc) ==
    IF exc.type = "HTTPException"
    THEN [status |-> exc.status, detail |-> exc.detail]
    ELSE [status |-> 500, detail |-> <<exc.text>>]

\* fault: the answer is built without the test `if not metadata`
get_metadata_unchecked(meta) ==
    [status |-> 200,
     body |-> [success |-> TRUE,
               title |-> DictGet(meta, "title"), thumbnail |-> DictGet(meta, "thumbnail"),
               duration |-> DictGet(meta, "duration"), channel |-> DictGet(meta, "channel")]]

\* get_metadata, given what get_video_metadata returned: 400 for {}, else the
\* MetadataResponse
get_metadata(meta) ==
    IF meta = EmptyDict
    THEN MetadataExcept(HTTPException(400, <<"Could not fetch metadata">>))
    ELSE [status |-> 200,
          body |-> [success |-> TRUE,
                    title |-> DictGet(meta, "title"), thumbnail |-> DictGet(meta, "thumbnail"),
                    duration |-> DictGet(meta, "duration"), channel |-> DictGet(meta, "channel")]]

\* the except clauses of generate_script_endpoint
ScriptExcept(exc) ==
    IF exc.type = "HTTPException"
    THEN [status |-> exc.status, detail |-> exc.detail]
    ELSE [status |-> 500, detail |-> <<"Script generation failed: ", exc.text>>]

\* fault: a directory name is taken without regard to what exists
MkdtempNames_any(files) == Dirs

\* tempfile.mkdtemp creates a directory under a name that does not exist
MkdtempNames(files) == {d \in Dirs : ~files[d].exists}

\* file.endswith(('.mp3', '.m4a', '.wav', '.webm', '.opus', '.ogg'))
IsAudio(file) == file.ext \in AudioExts

\* fault: the first file listed is taken, whatever its extension
FindAudio_anyFile(ls) == IF ls = {} THEN {NoFile} ELSE ls

\* the loop over os.listdir(temp_dir): the first file, in the order listdir gives
\* (any order), that has an audio extension; None when there is none
FindAudio(ls) ==
    IF \E f \in ls : IsAudio(f) THEN {f \in ls : IsAudio(f)} ELSE {NoFile}

\* fault: more than one file with an audio extension is taken for none
AudioMissing_ambiguous(file, dir) ==
    \/ file = NoFile \/ ~dir.exists \/ file \notin dir.files
    \/ Cardinality({f \in dir.files : IsAudio(f)}) # 1

\* if not audio_file or not os.path.exists(audio_file)
AudioMissing(file, dir) == file = NoFile \/ ~dir.exists \/ file \notin dir.files

\* raise HTTPException(status_code=500, detail="Audio file not found after download")
AudioArtifactMissing == HTTPException(500, <<"Audio file not found after download">>)

\* fault: the transcript is tested and returned as the service gave it
Transcript_untrimmed(t) == t.text

\* transcript = transcription.text.strip()
Transcript(t) == Strip(t.text)

\* what the call of the summarizer may do: answer with a text, or raise
SummarizerResults ==
    [kind : {"ok"}, text : Summaries] \cup [kind : {"Exception"}, text : ErrTexts]

\* fault: the text of the summarizer's exception is returned as the summary
generate_summary_leaks(res) ==
    IF res.kind = "ok" THEN Strip(res.text) ELSE <<"E">>

\* generate_summary: the stripped answer, "" when the call raised
generate_summary(res) ==
    IF res.kind = "ok" THEN Strip(res.text) ELSE <<>>

\* fault: the prompt is not tested
ScriptValidation_transcriptOnly(body) ==
    IF body.transcript = <<>>
    THEN Some(HTTPException(400, <<"Transcript is required">>))
    ELSE None

\* generate_script_endpoint: if not request.transcript / if not request.prompt
ScriptValidation(body) ==
    IF body.transcript = <<>>
    THEN Some(HTTPException(400, <<"Transcript is required">>))
    ELSE IF body.prompt = <<>>
    THEN Some(HTTPException(400, <<"Prompt is required">>))
    ELSE None

\* round(duration, 2), on milliseconds that are no tie between two hundredths
Round2(ms) == ((ms + 5) \div 10) * 10

\* the segments list of the response
ResponseSegments(t) ==
    LET raw == GetAttr(t, "segments", <<>>)
    IN  IF raw # <<>>
        THEN [i \in 1..Len(raw) |->
                [start |-> raw[i].start, end |-> raw[i].end, text |-> raw[i].text]]
        ELSE <<>>

\* fault: getattr(transcription, 'language', '')
TranscribeResponse_emptyLanguage(t, summ, meta) ==
    LET duration == GetAttr(t, "duration", 0)
    IN  [success |-> TRUE,
         transcript |-> Transcript(t),
         segments |-> ResponseSegments(t),
         summary |-> summ,
         duration |-> IF duration # 0 THEN Some(Round2(duration)) ELSE None,
         language |-> GetAttr(t, "language", ""),
         title |-> DictGet(meta, "title"),
         thumbnail |-> DictGet(meta, "thumbnail")]

\* TranscribeResponse(success=True, ...)
TranscribeResponse(t, summ, meta) ==
    LET duration == GetAttr(t, "duration", 0)
    IN  [success |-> TRUE,
         transcript |-> Transcript(t),
         segments |-> ResponseSegments(t),
         summary |-> summ,
         duration |-> IF duration # 0 THEN Some(Round2(duration)) ELSE None,
         language |-> GetAttr(t, "language", "unknown"),
         title |-> DictGet(meta, "title"),
         thumbnail |-> DictGet(meta, "thumbnail")]

\* fault: the handler goes on after a failed download
StageAfterDownload_goesOn(out) == "scan"

\* the stage after ydl.download, given what the try block around it produced
StageAfterDownload(out) == IF out = NoOutcome THEN "scan" ELSE "finally"

\* faults: no cleanup; cleanup at the end of the try block instead of in finally
CleanupDue_never(td, files) == FALSE
CleanupDue_onSuccessOnly(td, files) ==
    td # NoDir /\ files[td].exists /\ \E r \in Reqs : loop = r /\ outcome[r].status = 200

\* finally: if temp_dir and os.path.exists(temp_dir)
CleanupDue(td, files) == td # NoDir /\ files[td].exists

\* fault: the exception of shutil.rmtree is not caught
AfterCleanup_raises(pending, rmtreeRaised) ==
    IF rmtreeRaised THEN [status |-> 500, detail |-> <<"Internal Server Error">>]
    ELSE pending

\* what leaves the finally block: shutil.rmtree's exception is caught and printed,
\* so the pending return value or exception is what it was
AfterCleanup(pending, rmtreeRaised) == pending

\* ------------------------------------------------ generate_script taken alone

\* transcripts are as long as 0 and as the cut of generate_script, give or take MaxOver
MaxOver == 2
Alphabet == <<"a", "b", "c">>
Text(n) == [i \in 1..n |-> Alphabet[(i % 3) + 1]]

\* s[:n] of a Python string
Slice(s, n) == SubSeq(s, 1, IF Len(s) < n THEN Len(s) ELSE n)

\* the instruction texts of generate_script, each by its first sentence
template_prompts ==
    [twitter |-> "Create an engaging Twitter/X thread (5-10 tweets) from this content.",
     blog |-> "Write a well-structured blog post from this content.",
     youtube |-> "Write a YouTube video script based on this content.",
     linkedin |-> "Create a professional LinkedIn post from this content.",
     newsletter |-> "Write an email newsletter from this content.",
     custom |-> "Follow the user's instructions to create content based on the transcript."]

\* template: str = "custom", when the request names no template
TemplateArg(field) == IF field = None THEN "custom" ELSE field[1]

\* fault: template_prompts.get(template), with no default
system_base_noDefault(template) ==
    IF template \in DOMAIN template_prompts THEN template_prompts[template] ELSE "None"

\* system_base = template_prompts.get(template, template_prompts["custom"])
system_base(template) ==
    IF template \in DOMAIN template_prompts
    THEN template_prompts[template]
    ELSE template_prompts["custom"]

\* the f-string of system_message: its fixed text around system_base
system_message(template) ==
    <<"You are an expert content writer and scriptwriter.", system_base(template),
      "Guidelines:">>

\* transcript[:6000]
ScriptCut == 6000

\* fault: the transcript is sent whole
user_message_whole(transcript, prompt) ==
    <<"Here is the video transcript:", transcript,
      "User's request: ", prompt,
      "Please create the content based on the transcript and the user's request.">>

\* the f-string of user_message: its fixed text around the cut transcript and the prompt
user_message(transcript, prompt) ==
    <<"Here is the video transcript:", Slice(transcript, ScriptCut),
      "User's request: ", prompt,
      "Please create the content based on the transcript and the user's request.">>

\* messages=[{"role": "system", ...}, {"role": "user", ...}]
ScriptMessages(c) ==
    [system |-> system_message(TemplateArg(c.template)),
     user |-> user_message(c.transcript, c.prompt)]

TextLens == (0..MaxOver) \cup ((ScriptCut - MaxOver)..(ScriptCut + MaxOver))
TemplateFields ==
    {None} \cup {Some(t) : t \in DOMAIN template_prompts \cup {"podcast", ""}}
ScriptCalls ==
    [transcript : {Text(n) : n \in TextLens}, prompt : {<<"p">>, <<"p", "q">>},
     template : TemplateFields]

\* ------------------------------------------------ the timestamp formatters
\* A time is held as its whole number k of milliseconds; the float the formatters
\* get is the IEEE 754 double nearest to k/1000, as a JSON number with three
\* decimals is read.

RECURSIVE BitLength(_)
BitLength(n) == IF n = 0 THEN 0 ELSE 1 + BitLength(n \div 2)

RECURSIVE Pow2(_)
Pow2(n) == IF n = 0 THEN 1 ELSE 2 * Pow2(n - 1)

RECURSIVE Pow2Mod(_, _)
Pow2Mod(n, m) == IF n = 0 THEN 1 % m ELSE (2 * Pow2Mod(n - 1, m)) % m

IsPow2(n) == n = Pow2(BitLength(n) - 1)

RECURSIVE ExpBelowOne(_, _)
ExpBelowOne(r, e) == IF r * Pow2(e) >= 1000 THEN e ELSE ExpBelowOne(r, e + 1)

\* The double nearest to k/1000 is a multiple of 2^-FracBits(k): 53 significant
\* bits, of which the whole seconds take BitLength
FracBits(k) ==
    IF k \div 1000 >= 1
    THEN 53 - BitLength(k \div 1000)
    ELSE 52 + ExpBelowOne(k % 1000, 0)

\* int((seconds % 1) * 1000) in double arithmetic.  With r = k % 1000 and
\* p = FracBits(k), seconds % 1 is exactly F / 2^p for F the integer nearest to
\* r * 2^p / 1000, so 1000 * F = r * 2^p - m or r * 2^p + (1000 - m) for
\* m = r * 2^p % 1000.  When F was rounded down and m > 0 the product is below r,
\* and its rounding to 53 bits gives r only if m is at most half a unit of the last
\* place below r, in units of 2^-p; otherwise int() truncates it to r - 1.
Millis(k) ==
    LET r == k % 1000
        p == FracBits(k)
        m == (r * Pow2Mod(p, 1000)) % 1000
        t == p + BitLength(r) - (IF IsPow2(r) THEN 55 ELSE 54)
    IN  IF r = 0 \/ m = 0 \/ m > 500 THEN r
        ELSE IF t >= 9 THEN r
        ELSE IF t < 0 THEN r - 1
        ELSE IF m <= Pow2(t) THEN r ELSE r - 1

\* int(seconds // 3600), int((seconds % 3600) // 60), int(seconds % 60): the
\* rounding of k/1000 to a double never reaches the next whole second
Hours(k) == (k \div 1000) \div 3600
Minutes(k) == ((k \div 1000) % 3600) \div 60
Secs(k) == (k \div 1000) % 60

DigitChars == <<"0", "1", "2", "3", "4", "5", "6", "7", "8", "9">>

\* str(n) of an int n >= 0
RECURSIVE Str(_)
Str(n) == IF n < 10 THEN <<DigitChars[n + 1]>> ELSE Str(n \div 10) \o <<DigitChars[(n % 10) + 1]>>

\* the format spec 0<width>d, and padStart(width, '0')
RECURSIVE ZeroPad(_, _)
ZeroPad(str, width) == IF Len(str) >= width THEN str ELSE ZeroPad(<<"0">> \o str, width)

\* f"{hours:02d}:{minutes:02d}:{secs:02d},{millis:03d}"
format_timestamp(k) ==
    ZeroPad(Str(Hours(k)), 2) \o <<":">> \o ZeroPad(Str(Minutes(k)), 2) \o <<":">>
        \o ZeroPad(Str(Secs(k)), 2) \o <<",">> \o ZeroPad(Str(Millis(k)), 3)

\* f"{hours:02d}:{minutes:02d}:{secs:02d}.{millis:03d}"
format_vtt_timestamp(k) ==
    ZeroPad(Str(Hours(k)), 2) \o <<":">> \o ZeroPad(Str(Minutes(k)), 2) \o <<":">>
        \o ZeroPad(Str(Secs(k)), 2) \o <<".">> \o ZeroPad(Str(Millis(k)), 3)

\* the same arithmetic on the same doubles in the page's script
formatSRTTime(k) ==
    ZeroPad(Str(Hours(k)), 2) \o <<":">> \o ZeroPad(Str(Minutes(k)), 2) \o <<":">>
        \o ZeroPad(Str(Secs(k)), 2) \o <<",">> \o ZeroPad(Str(Millis(k)), 3)

formatVTTTime(k) ==
    ZeroPad(Str(Hours(k)), 2) \o <<":">> \o ZeroPad(Str(Minutes(k)), 2) \o <<":">>
        \o ZeroPad(Str(Secs(k)), 2) \o <<".">> \o ZeroPad(Str(Millis(k)), 3)

\* times of at most MaxMs milliseconds, and some around a minute, an hour and a
\* hundred hours
MaxMs == 1200
Times ==
    (0..MaxMs) \cup {2300, 2500, 5000, 59999, 60000, 3599999, 3600000, 3661001,
                     359999999, 360000000, 360000001}

\* ------------------------------------------------ the segment encoders
\* A document is the sequence of its characters.

MaxSegs == 2            \* segments in one export
MaxCalls == 3           \* exports of the same segments in one behaviour

SegTimes == {<<0, 2500>>, <<1001, 2300>>}
SegTexts == {<<" ", "a", "\n", "b", " ">>, <<" ">>, <<"a", "\n", "\n", "b">>}
SegmentSet == {[start |-> t[1], end |-> t[2], text |-> x] : t \in SegTimes, x \in SegTexts}
SegmentLists == UNION {[1..n -> SegmentSet] : n \in 0..MaxSegs}

NL == <<"\n">>
Arrow == <<" ", "-", "-", ">", " ">>
WEBVTT == <<"W", "E", "B", "V", "T", "T">>

\* "\n".join(ls)
RECURSIVE Join(_)
Join(ls) ==
    IF ls = <<>> THEN <<>>
    ELSE IF Len(ls) = 1 THEN ls[1]
    ELSE ls[1] \o NL \o Join(Tail(ls))

\* fault: the list of lines outlives the call (a module-level list)
NewLines_kept(old, first) == old \o first

\* srt_lines = [] and vtt_lines = ["WEBVTT", ""]: a new list at every call
NewLines(old, first) == first

\* the loop of segments_to_srt from segment i on
RECURSIVE SrtLoop(_, _, _)
SrtLoop(segs, i, srt_lines) ==
    IF i > Len(segs) THEN srt_lines
    ELSE SrtLoop(segs, i + 1,
            srt_lines \o <<Str(i),
                           format_timestamp(segs[i].start) \o Arrow
                               \o format_timestamp(segs[i].end),
                           Strip(segs[i].text),
                           <<>> >>)

\* the loop of segments_to_vtt from segment i on
RECURSIVE VttLoop(_, _, _)
VttLoop(segs, i, vtt_lines) ==
    IF i > Len(segs) THEN vtt_lines
    ELSE VttLoop(segs, i + 1,
            vtt_lines \o <<Str(i),
                           format_vtt_timestamp(segs[i].start) \o Arrow
                               \o format_vtt_timestamp(segs[i].end),
                           Strip(segs[i].text),
                           <<>> >>)

\* the lists segments_to_srt and segments_to_vtt build
SrtLines(old, segs) == SrtLoop(segs, 1, NewLines(old, <<>>))
VttLines(old, segs) == VttLoop(segs, 1, NewLines(old, <<WEBVTT, <<>> >>))

\* what a call gives its caller: a document, or a message and no document
Document(by, format, segs, doc) ==
    [by |-> by, format |-> format, of |-> segs, kind |-> "document", doc |-> doc,
     message |-> ""]
NoData(by, format, segs) ==
    [by |-> by, format |-> format, of |-> segs, kind |-> "nodata", doc |-> <<>>,
     message |-> "No timestamp data available"]

segments_to_srt(old, segs) == Document("server", "srt", segs, Join(SrtLines(old, segs)))
segments_to_vtt(old, segs) == Document("server", "vtt", segs, Join(VttLines(old, segs)))

\* seg.text.trim(), on the white space of IsSpace
Trim(text) == Strip(text)

\* currentData.segments.forEach((seg, i) => { srt += ... }) from segment i on
RECURSIVE SrtForEach(_, _, _)
SrtForEach(segs, i, srt) ==
    IF i > Len(segs) THEN srt
    ELSE SrtForEach(segs, i + 1,
            srt \o Str(i) \o NL
                \o formatSRTTime(segs[i].start) \o Arrow \o formatSRTTime(segs[i].end) \o NL
                \o Trim(segs[i].text) \o NL \o NL)

RECURSIVE VttForEach(_, _, _)
VttForEach(segs, i, vtt) ==
    IF i > Len(segs) THEN vtt
    ELSE VttForEach(segs, i + 1,
            vtt \o Str(i) \o NL
                \o formatVTTTime(segs[i].start) \o Arrow \o formatVTTTime(segs[i].end) \o NL
                \o Trim(segs[i].text) \o NL \o NL)

\* downloadSRT and downloadVTT: the toast and no file for no segments, else the file
downloadSRT(segs) ==
    IF segs = <<>> THEN NoData("client", "srt", segs)
    ELSE Document("client", "srt", segs, SrtForEach(segs, 1, <<>>))

downloadVTT(segs) ==
    IF segs = <<>> THEN NoData("client", "vtt", segs)
    ELSE Document("client", "vtt", segs, VttForEach(segs, 1, WEBVTT \o NL \o NL))

\* an exception leaves the try block of transcribe_video through its except clauses
Raise(r, exc) ==
    /\ fault' = [fault EXCEPT ![r] = Some(exc)]
    /\ outcome' = [outcome EXCEPT ![r] = TranscribeExcept(exc)]

Enter(r, stage) == trace' = [trace EXCEPT ![r] = Append(@, stage)]
Running(r, at) == loop = r /\ pc[r] = at

\* ----------------------------------------------------------------- actions

\* the route of a request: /transcribe, /metadata or /generate-script
FirstStage(body) ==
    CASE body.kind = "transcribe" -> "metadata"
      [] body.kind = "metadata" -> "lookup"
      [] OTHER -> "validate"

\* a client sends a request; the server holds it until the event loop takes it
Arrive(r) ==
    /\ pc[r] = "idle"
    /\ pc' = [pc EXCEPT ![r] = "queued"]
    /\ UNCHANGED <<req, loop, shared, disk, locals, outcome, response, ghosts, alone>>

\* the event loop, running no handler, reads the body of a request it holds and
\* starts the handler of its route
Dispatch(r) ==
    /\ pc[r] = "queued"
    /\ loop = 0
    /\ loop' = r
    /\ \E body \in TranscribeRequests \cup ScriptRequests \cup MetadataRequests :
          /\ req' = [req EXCEPT ![r] = body]
          /\ pc' = [pc EXCEPT ![r] = FirstStage(body)]
    /\ UNCHANGED <<shared, disk, locals, outcome, response, ghosts, alone>>

\* metadata = get_video_metadata(request.url): {} when extract_info raises
FetchMetadata(r) ==
    /\ Running(r, "metadata")
    /\ \E res \in MetadataResults, ck \in SavedCookies(get_ydl_opts(cookies), cookies) :
          /\ metadata' = [metadata EXCEPT ![r] = get_video_metadata(res)]
          /\ md' = [md EXCEPT ![r] = <<res.kind>>]
          /\ cookies' = ck
    /\ Enter(r, "metadata")
    /\ pc' = [pc EXCEPT ![r] = "mkdtemp"]
    /\ UNCHANGED <<req, loop, client, disk, temp_dir, listing, audio_file, transcription,
                   summary, outcome, response, dl, rmAttempts, rmFailed,
                   fault, sm, alone>>

\* temp_dir = tempfile.mkdtemp()
MkdtempOk(r) ==
    /\ Running(r, "mkdtemp")
    /\ \E d \in MkdtempNames(fs) :
          /\ temp_dir' = [temp_dir EXCEPT ![r] = d]
          /\ fs' = [fs EXCEPT ![d] = [exists |-> TRUE, files |-> {}]]
          /\ creator' = [creator EXCEPT ![d] = IF fs[d].exists THEN @ ELSE r]
          /\ users' = [users EXCEPT ![d] = IF fs[d].exists THEN @ \cup {r} ELSE {r}]
          /\ unremoved' = [unremoved EXCEPT ![d] = FALSE]
    /\ Enter(r, "mkdtemp")
    /\ pc' = [pc EXCEPT ![r] = "download"]
    /\ UNCHANGED <<req, loop, shared, metadata, listing, audio_file, transcription,
                   summary, outcome, response, dl, rmAttempts, rmFailed,
                   fault, sm, md, alone>>

\* tempfile.mkdtemp() raises: temp_dir stays None
MkdtempRaises(r) ==
    /\ Running(r, "mkdtemp")
    /\ \E e \in ErrTexts : Raise(r, Raised("OSError", e))
    /\ Enter(r, "mkdtemp")
    /\ pc' = [pc EXCEPT ![r] = "finally"]
    /\ UNCHANGED <<req, loop, shared, disk, locals, response, dl, rmAttempts, rmFailed,
                   sm, alone, md>>

\* with yt_dlp.YoutubeDL(ydl_opts) as ydl: ydl.download([request.url])
DownloadResults ==
    [kind : {"ok"}, text : {""}, files : DownloadedFiles]
        \cup [kind : {"DownloadError", "Exception"}, text : ErrTexts, files : {{}}]

Download(r) ==
    /\ Running(r, "download")
    /\ \E res \in DownloadResults, ck \in SavedCookies(get_ydl_opts(cookies), cookies) :
          LET d == temp_dir[r]
              exc == DownloadExcept(Raised(res.kind, res.text))
              out == IF res.kind = "ok" THEN NoOutcome ELSE TranscribeExcept(exc)
          IN  /\ fs' = [fs EXCEPT ![d].files = @ \cup res.files]
              /\ users' = [users EXCEPT ![d] = @ \cup {r}]
              /\ cookies' = ck
              /\ dl' = [dl EXCEPT ![r] = <<res.kind, res.text>>]
              /\ fault' = [fault EXCEPT ![r] = IF res.kind = "ok" THEN None ELSE Some(exc)]
              /\ outcome' = [outcome EXCEPT ![r] = out]
              /\ pc' = [pc EXCEPT ![r] = StageAfterDownload(out)]
    /\ Enter(r, "download")
    /\ UNCHANGED <<req, loop, client, creator, unremoved, locals, response, rmAttempts, rmFailed,
                   sm, alone, md>>

\* the loop over os.listdir(temp_dir) and the check that follows it
Scan(r) ==
    /\ Running(r, "scan")
    /\ LET d == temp_dir[r]
           ls == fs[d].files
       IN  /\ listing' = [listing EXCEPT ![r] = Some(ls)]
           /\ users' = [users EXCEPT ![d] = @ \cup {r}]
           /\ \E f \in FindAudio(ls) :
                 /\ audio_file' = [audio_file EXCEPT ![r] = f]
                 /\ IF AudioMissing(f, fs[d])
                    THEN /\ Raise(r, AudioArtifactMissing)
                         /\ pc' = [pc EXCEPT ![r] = "finally"]
                    ELSE /\ pc' = [pc EXCEPT ![r] = "transcribe"]
                         /\ UNCHANGED <<outcome, fault>>
    /\ Enter(r, "scan")
    /\ UNCHANGED <<req, loop, shared, fs, creator, unremoved, metadata, temp_dir, transcription,
                   summary, response, dl, rmAttempts, rmFailed,
                   sm, alone, md>>

\* os.listdir(temp_dir) raises
ScanRaises(r) ==
    /\ Running(r, "scan")
    /\ \E e \in ErrTexts : Raise(r, Raised("OSError", e))
    /\ users' = [users EXCEPT ![temp_dir[r]] = @ \cup {r}]
    /\ Enter(r, "scan")
    /\ pc' = [pc EXCEPT ![r] = "finally"]
    /\ UNCHANGED <<req, loop, shared, fs, creator, unremoved, locals, response, dl, rmAttempts, rmFailed,
                   sm, alone, md>>

\* open(audio_file).read() and client.audio.transcriptions.create(...), then the
\* locals computed from the answer
Transcribe(r) ==
    /\ Running(r, "transcribe")
    /\ \E t \in Transcriptions :
          /\ transcription' = [transcription EXCEPT ![r] = t]
          /\ pc' = [pc EXCEPT ![r] = IF Transcript(t) # <<>> THEN "summarize" ELSE "assemble"]
    /\ users' = [users EXCEPT ![temp_dir[r]] = @ \cup {r}]
    /\ Enter(r, "transcribe")
    /\ UNCHANGED <<req, loop, shared, fs, creator, unremoved, metadata, temp_dir, listing, audio_file,
                   summary, outcome, response, dl, rmAttempts, rmFailed,
                   fault, sm, md, alone>>

\* the read of the file or the transcription service raises
TranscribeRaises(r) ==
    /\ Running(r, "transcribe")
    /\ \E e \in ErrTexts : Raise(r, Raised("Exception", e))
    /\ users' = [users EXCEPT ![temp_dir[r]] = @ \cup {r}]
    /\ Enter(r, "transcribe")
    /\ pc' = [pc EXCEPT ![r] = "finally"]
    /\ UNCHANGED <<req, loop, shared, fs, creator, unremoved, locals, response, dl, rmAttempts, rmFailed,
                   sm, alone, md>>

\* summary = generate_summary(transcript, request.summary_style)
Summarize(r) ==
    /\ Running(r, "summarize")
    /\ \E res \in SummarizerResults :
          /\ summary' = [summary EXCEPT ![r] = generate_summary(res)]
          /\ sm' = [sm EXCEPT ![r] =
                IF res.kind = "ok" THEN <<"ok">> ELSE <<res.kind, res.text>>]
    /\ Enter(r, "summarize")
    /\ pc' = [pc EXCEPT ![r] = "assemble"]
    /\ UNCHANGED <<req, loop, shared, disk, metadata, temp_dir, listing, audio_file,
                   transcription, outcome, response, dl, rmAttempts, rmFailed,
                   fault, alone, md>>

\* return TranscribeResponse(success=True, ...)
Assemble(r) ==
    /\ Running(r, "assemble")
    /\ outcome' = [outcome EXCEPT ![r] =
          [status |-> 200,
           body |-> TranscribeResponse(transcription[r], summary[r], metadata[r])]]
    /\ Enter(r, "assemble")
    /\ pc' = [pc EXCEPT ![r] = "finally"]
    /\ UNCHANGED <<req, loop, shared, disk, locals, response, dl, rmAttempts, rmFailed,
                   fault, sm, md, alone>>

\* finally: shutil.rmtree(temp_dir) removes the directory
CleanupRemoves(r) ==
    /\ Running(r, "finally")
    /\ CleanupDue(temp_dir[r], fs)
    /\ LET d == temp_dir[r]
       IN  /\ fs' = [fs EXCEPT ![d] = NoDirEntry]
           /\ creator' = [creator EXCEPT ![d] = 0]
           /\ users' = [users EXCEPT ![d] = {}]
    /\ rmAttempts' = [rmAttempts EXCEPT ![r] = @ + 1]
    /\ response' = [response EXCEPT ![r] = AfterCleanup(outcome[r], FALSE)]
    /\ Enter(r, "finally")
    /\ pc' = [pc EXCEPT ![r] = "respond"]
    /\ UNCHANGED <<req, loop, shared, unremoved, locals, outcome, dl, rmFailed,
                   fault, sm, md, alone>>

\* finally: shutil.rmtree(temp_dir) raises and the directory stays
CleanupRaises(r) ==
    /\ Running(r, "finally")
    /\ CleanupDue(temp_dir[r], fs)
    /\ users' = [users EXCEPT ![temp_dir[r]] = @ \cup {r}]
    /\ unremoved' = [unremoved EXCEPT ![temp_dir[r]] = TRUE]
    /\ rmAttempts' = [rmAttempts EXCEPT ![r] = @ + 1]
    /\ rmFailed' = [rmFailed EXCEPT ![r] = TRUE]
    /\ response' = [response EXCEPT ![r] = AfterCleanup(outcome[r], TRUE)]
    /\ Enter(r, "finally")
    /\ pc' = [pc EXCEPT ![r] = "respond"]
    /\ UNCHANGED <<req, loop, shared, fs, creator, locals, outcome, dl,
                   fault, sm, md, alone>>

\* finally: nothing to remove
CleanupSkipped(r) ==
    /\ Running(r, "finally")
    /\ ~CleanupDue(temp_dir[r], fs)
    /\ response' = [response EXCEPT ![r] = outcome[r]]
    /\ Enter(r, "finally")
    /\ pc' = [pc EXCEPT ![r] = "respond"]
    /\ UNCHANGED <<req, loop, shared, disk, locals, outcome, dl, rmAttempts, rmFailed,
                   fault, sm, md, alone>>

\* the handler of /metadata: metadata = get_video_metadata(request.url) and the
\* answer built from it
Lookup(r) ==
    /\ Running(r, "lookup")
    /\ \E res \in MetadataResults, ck \in SavedCookies(get_ydl_opts(cookies), cookies) :
          LET meta == get_video_metadata(res)
          IN  /\ metadata' = [metadata EXCEPT ![r] = meta]
              /\ md' = [md EXCEPT ![r] = <<res.kind>>]
              /\ cookies' = ck
              /\ response' = [response EXCEPT ![r] = get_metadata(meta)]
    /\ Enter(r, "lookup")
    /\ pc' = [pc EXCEPT ![r] = "respond"]
    /\ UNCHANGED <<req, loop, client, disk, temp_dir, listing, audio_file, transcription,
                   summary, outcome, dl, rmAttempts, rmFailed, fault, sm, alone>>

\* generate_script_endpoint: the two checks of the request
Validate(r) ==
    /\ Running(r, "validate")
    /\ LET invalid == ScriptValidation(req[r])
       IN  IF invalid # None
           THEN /\ fault' = [fault EXCEPT ![r] = invalid]
                /\ response' = [response EXCEPT ![r] = ScriptExcept(invalid[1])]
                /\ pc' = [pc EXCEPT ![r] = "respond"]
           ELSE /\ pc' = [pc EXCEPT ![r] = "generate"]
                /\ UNCHANGED <<response, fault>>
    /\ Enter(r, "validate")
    /\ UNCHANGED <<req, loop, shared, disk, locals, outcome, dl, rmAttempts, rmFailed,
                   sm, alone, md>>

\* script = generate_script(...): the generator answers, or raises and the
\* exception is raised again
Generate(r) ==
    /\ Running(r, "generate")
    /\ \/ \E s \in Scripts :
             /\ response' = [response EXCEPT ![r] =
                   [status |-> 200, body |-> [success |-> TRUE, script |-> Strip(s)]]]
             /\ UNCHANGED fault
       \/ \E e \in ErrTexts :
             LET exc == Raised("Exception", e)
             IN  /\ fault' = [fault EXCEPT ![r] = Some(exc)]
                 /\ response' = [response EXCEPT ![r] = ScriptExcept(exc)]
    /\ Enter(r, "generate")
    /\ pc' = [pc EXCEPT ![r] = "respond"]
    /\ UNCHANGED <<req, loop, shared, disk, locals, outcome, dl, rmAttempts, rmFailed,
                   sm, alone, md>>

\* The handler has returned or raised and its response has been sent: the request
\* is over, its frame is gone and the event loop is free again.  A directory it
\* left behind has no request any more.
Gone == -1
Respond(r) ==
    /\ Running(r, "respond")
    /\ loop' = 0
    /\ pc' = [pc EXCEPT ![r] = "idle"]
    /\ creator' = [d \in Dirs |-> IF creator[d] = r THEN Gone ELSE creator[d]]
    /\ users' = [d \in Dirs |-> users[d] \ {r}]
    /\ req' = [req EXCEPT ![r] = NoReq]
    /\ metadata' = [metadata EXCEPT ![r] = EmptyDict]
    /\ temp_dir' = [temp_dir EXCEPT ![r] = NoDir]
    /\ listing' = [listing EXCEPT ![r] = None]
    /\ audio_file' = [audio_file EXCEPT ![r] = NoFile]
    /\ transcription' = [transcription EXCEPT ![r] = NoTranscription]
    /\ summary' = [summary EXCEPT ![r] = <<>>]
    /\ outcome' = [outcome EXCEPT ![r] = NoOutcome]
    /\ response' = [response EXCEPT ![r] = NoOutcome]
    /\ trace' = [trace EXCEPT ![r] = <<>>]
    /\ dl' = [dl EXCEPT ![r] = <<>>]
    /\ rmAttempts' = [rmAttempts EXCEPT ![r] = 0]
    /\ rmFailed' = [rmFailed EXCEPT ![r] = FALSE]
    /\ fault' = [fault EXCEPT ![r] = None]
    /\ sm' = [sm EXCEPT ![r] = <<>>]
    /\ md' = [md EXCEPT ![r] = <<>>]
    /\ UNCHANGED <<shared, fs, unremoved, alone>>

Step(r) ==
    \/ Dispatch(r)
    \/ FetchMetadata(r)
    \/ MkdtempOk(r)
    \/ MkdtempRaises(r)
    \/ Download(r)
    \/ Scan(r)
    \/ ScanRaises(r)
    \/ Transcribe(r)
    \/ TranscribeRaises(r)
    \/ Summarize(r)
    \/ Assemble(r)
    \/ CleanupRemoves(r)
    \/ CleanupRaises(r)
    \/ CleanupSkipped(r)
    \/ Lookup(r)
    \/ Validate(r)
    \/ Generate(r)
    \/ Respond(r)

Next == \E r \in Reqs : Arrive(r) \/ Step(r)

Spec == Init /\ [][Next]_vars

\* generate_script taken alone, on every call in ScriptCalls: it builds the two
\* messages and hands them to the generator
InitScript ==
    /\ InitServer
    /\ cookies = "absent"
    /\ call \in ScriptCalls
    /\ messages = None
    /\ InitTimesIdle
    /\ InitEncodingIdle

GenerateScriptCall ==
    /\ messages = None
    /\ messages' = Some(ScriptMessages(call))
    /\ UNCHANGED <<call, server, times, encoding>>

NextScript == GenerateScriptCall

SpecScript == InitScript /\ [][NextScript]_vars

\* the two formatters taken alone, on every time in Times
InitTimes ==
    /\ InitServer
    /\ cookies = "absent"
    /\ InitScriptIdle
    /\ InitEncodingIdle
    /\ seconds \in Times
    /\ stamps = None

FormatTimestamps ==
    /\ stamps = None
    /\ stamps' = Some([srt |-> format_timestamp(seconds),
                       vtt |-> format_vtt_timestamp(seconds)])
    /\ UNCHANGED <<seconds, server, script, encoding>>

NextTimes == FormatTimestamps

SpecTimes == InitTimes /\ [][NextTimes]_vars

\* the encoders taken alone: the same segments are exported up to MaxCalls times,
\* by the functions of the server and by those of the page, in any order
InitEncoding ==
    /\ InitServer
    /\ cookies = "absent"
    /\ InitScriptIdle
    /\ InitTimesIdle
    /\ segments \in SegmentLists
    /\ lines = <<>>
    /\ exports = <<>>

ServerSrt ==
    /\ Len(exports) < MaxCalls
    /\ lines' = SrtLines(lines, segments)
    /\ exports' = Append(exports, segments_to_srt(lines, segments))
    /\ UNCHANGED <<segments, server, script, times>>

ServerVtt ==
    /\ Len(exports) < MaxCalls
    /\ lines' = VttLines(lines, segments)
    /\ exports' = Append(exports, segments_to_vtt(lines, segments))
    /\ UNCHANGED <<segments, server, script, times>>

ClientSrt ==
    /\ Len(exports) < MaxCalls
    /\ exports' = Append(exports, downloadSRT(segments))
    /\ UNCHANGED <<segments, lines, server, script, times>>

ClientVtt ==
    /\ Len(exports) < MaxCalls
    /\ exports' = Append(exports, downloadVTT(segments))
    /\ UNCHANGED <<segments, lines, server, script, times>>

NextEncoding == ServerSrt \/ ServerVtt \/ ClientSrt \/ ClientVtt

SpecEncoding == InitEncoding /\ [][NextEncoding]_vars

\* ------------------------------------------------------------------ claims

IsTranscribe(r) == req[r].kind = "transcribe"
Handled(r) == pc[r] = "respond"          \* the handler is over, the response leaves
Stages(r) == {trace[r][i] : i \in 1..Len(trace[r])}
OwnDirExists(r) == temp_dir[r] # NoDir /\ fs[temp_dir[r]].exists

\* C1 (as stated): once the response of a /transcribe request has been returned,
\* the working directory created for it does not exist, whatever the exit path.
C1_NoDirectoryOutlivesItsRequest ==
    /\ \A r \in Reqs : Handled(r) => ~OwnDirExists(r)
    /\ \A d \in Dirs : fs[d].exists => creator[d] # Gone

\* C1 (amended): once the response has been returned, the working directory of the
\* request does not exist unless shutil.rmtree of it raised; the cleanup is not
\* skipped on any exit path.
C1_DirectoryGoneUnlessRemovalFailed ==
    /\ \A r \in Reqs : Handled(r) /\ OwnDirExists(r) => rmFailed[r]
    /\ \A d \in Dirs : fs[d].exists /\ creator[d] = Gone => unremoved[d]

C1_Witness ==
    \E r \in Reqs :
        /\ Handled(r) /\ IsTranscribe(r)
        /\ temp_dir[r] # NoDir /\ ~fs[temp_dir[r]].exists
        /\ response[r].status = 200

\* C2 (as stated): a request that acquired a working directory has deleted it
\* exactly once when it ends, after the last use, on every exit path.
C2_DeletedExactlyOnce ==
    \A r \in Reqs :
        Handled(r) /\ temp_dir[r] # NoDir =>
            rmAttempts[r] = 1 /\ ~rmFailed[r] /\ ~fs[temp_dir[r]].exists

\* C2 (amended): a request that acquired a working directory calls shutil.rmtree on
\* it exactly once, on every exit path, and only when no stage that uses the
\* directory can follow; the directory is then deleted unless that one call raised.
\* A request that acquired none never calls it.
C2_RemovalAttemptedOnceAfterUse ==
    \A r \in Reqs :
        /\ rmAttempts[r] <= 1
        /\ rmAttempts[r] = 1 => Handled(r) /\ temp_dir[r] # NoDir
                                 /\ trace[r][Len(trace[r])] = "finally"
        /\ Handled(r) /\ temp_dir[r] # NoDir =>
              rmAttempts[r] = 1 /\ (rmFailed[r] \/ ~fs[temp_dir[r]].exists)
        /\ rmFailed[r] => rmAttempts[r] = 1

C2_Witness ==
    \E r \in Reqs :
        /\ Handled(r) /\ rmAttempts[r] = 1 /\ ~rmFailed[r]
        /\ "transcribe" \in Stages(r)
        /\ response[r].status = 500

\* C3: a failure of shutil.rmtree in the finally block is never raised: the response
\* of /transcribe is what the try block returned or raised, whether the removal
\* succeeded or failed.
C3_RemovalFailureNotRaised ==
    \A r \in Reqs : Handled(r) /\ IsTranscribe(r) => response[r] = outcome[r]

C3_Witness ==
    \E r \in Reqs :
        Handled(r) /\ IsTranscribe(r) /\ rmFailed[r] /\ response[r].status = 200

\* C4 (as stated): while a request waits on a collaborator call, another request
\* that the service holds can be started and make progress.
CollaboratorStages == {"metadata", "download", "transcribe", "summarize", "generate"}
C4_OthersProgressDuringCollaboratorCall ==
    \A r, q \in Reqs :
        r # q /\ pc[r] \in CollaboratorStages /\ pc[q] = "queued" => ENABLED Step(q)

\* C5: no two requests own the same working directory, and a working directory is
\* created, read, written and removed only by the request that created it, while
\* that request is being handled.
C5_WorkingDirectoryExclusive ==
    /\ \A r, q \in Reqs :
          r # q /\ temp_dir[r] # NoDir => temp_dir[q] # temp_dir[r]
    /\ \A d \in Dirs :
          /\ users[d] \subseteq {creator[d]}
          /\ creator[d] \in Reqs =>
                /\ temp_dir[creator[d]] = d
                /\ pc[creator[d]] \notin {"idle", "queued"}
          /\ \A r \in Reqs : temp_dir[r] = d => creator[d] = r \/ ~fs[d].exists

C5_Witness ==
    \E r, q \in Reqs, d \in Dirs :
        /\ r # q /\ pc[q] = "queued"
        /\ pc[r] = "transcribe" /\ temp_dir[r] # NoDir /\ users[temp_dir[r]] = {r}
        /\ d # temp_dir[r] /\ fs[d].exists /\ creator[d] = Gone

\* C6 (as stated): handling a request never changes the shared state, the client and
\* the cookie material.
C6_SharedStateNeverMutated == [][client' = client /\ cookies' = cookies]_vars

\* C6 (amended): handling a request never changes the client, and never creates a
\* cookie file when none existed at startup; an existing cookie file can be
\* rewritten, and only by the downloader during the metadata fetch (of /transcribe
\* or of /metadata) or the download of the request being handled.
C6_OnlyDownloaderRewritesCookies ==
    [][ /\ client' = client
        /\ cookies = "absent" => cookies' = "absent"
        /\ cookies' # cookies =>
              \E r \in Reqs :
                  loop = r /\ pc[r] \in {"metadata", "lookup", "download"} ]_vars

C6_Witness ==
    \E r \in Reqs :
        Handled(r) /\ "download" \in Stages(r) /\ cookies = "absent" /\ client = "Groq"

\* C7: the stages of a /transcribe request are entered in the order metadata, mkdtemp
\* and download, scan, transcribe, summarize (optional), assemble, each at most
\* once; once a stage has failed no later stage is entered; the finally block is the
\* last step.
StageRank(stage) ==
    CASE stage = "metadata" -> 1 [] stage = "mkdtemp" -> 2 [] stage = "download" -> 3
      [] stage = "scan" -> 4 [] stage = "transcribe" -> 5 [] stage = "summarize" -> 6
      [] stage = "assemble" -> 7 [] stage = "finally" -> 8 [] OTHER -> 0
FullRun == <<"metadata", "mkdtemp", "download", "scan", "transcribe", "summarize",
             "assemble", "finally">>
RunWithoutSummary == <<"metadata", "mkdtemp", "download", "scan", "transcribe",
                       "assemble", "finally">>
C7_StagesInOrder ==
    \A r \in Reqs : IsTranscribe(r) =>
        /\ \A i, j \in 1..Len(trace[r]) :
              i < j => 0 < StageRank(trace[r][i]) /\ StageRank(trace[r][i]) < StageRank(trace[r][j])
        /\ \A i \in 2..Len(trace[r]) : trace[r][i] # "finally" =>
              \/ StageRank(trace[r][i]) = StageRank(trace[r][i - 1]) + 1
              \/ trace[r][i - 1] = "transcribe" /\ trace[r][i] = "assemble"
        /\ trace[r] # <<>> => trace[r][1] = "metadata"
        /\ outcome[r] # NoOutcome => pc[r] \in {"finally", "respond"}
        /\ Handled(r) => trace[r][Len(trace[r])] = "finally"
        /\ Handled(r) /\ response[r].status = 200 => trace[r] \in {FullRun, RunWithoutSummary}

C7_Witness == \E r \in Reqs : Handled(r) /\ trace[r] = FullRun

\* C8 (as stated): a /transcribe request with an empty url fails with 400 before the
\* metadata fetch, the acquisition of the working directory or the downloader is
\* reached.
C8_EmptyUrlRejectedAtInit ==
    \A r \in Reqs : IsTranscribe(r) /\ req[r].url = "" =>
        /\ Stages(r) \cap {"metadata", "mkdtemp", "download"} = {}
        /\ Handled(r) => response[r].status = 400

\* C9 (as stated): when ydl.download raises DownloadError the response is 400 with
\* the downloader's text, neither transcription nor summarization is invoked, and
\* the working directory is removed.
DownloadFailed(r) == dl[r] # <<>> /\ dl[r][1] = "DownloadError"
C9_DownloadFailureRemovesDirectory ==
    \A r \in Reqs : Handled(r) /\ DownloadFailed(r) =>
        /\ response[r] = [status |-> 400,
                          detail |-> <<"Failed to download video: ", dl[r][2]>>]
        /\ Stages(r) \cap {"transcribe", "summarize"} = {}
        /\ ~fs[temp_dir[r]].exists

\* C9 (amended): when ydl.download raises DownloadError the response is 400 with the
\* downloader's text, neither transcription nor summarization (nor the scan) is
\* invoked, and shutil.rmtree is called on the working directory, which is then
\* removed unless that call raised.
C9_DownloadFailure ==
    \A r \in Reqs :
        /\ DownloadFailed(r) => pc[r] \in {"finally", "respond"}
        /\ Handled(r) /\ DownloadFailed(r) =>
              /\ response[r] = [status |-> 400,
                                detail |-> <<"Failed to download video: ", dl[r][2]>>]
              /\ Stages(r) \cap {"scan", "transcribe", "summarize", "assemble"} = {}
              /\ rmAttempts[r] = 1
              /\ rmFailed[r] \/ ~fs[temp_dir[r]].exists

C9_Witness ==
    \E r \in Reqs :
        /\ Handled(r) /\ DownloadFailed(r) /\ dl[r][2] = "unreachable"
        /\ ~fs[temp_dir[r]].exists /\ response[r].status = 400

\* C10: when the download has completed and the working directory holds no file with
\* an accepted audio extension, /transcribe fails with 500 "Audio file not found
\* after download" and the transcription service is not invoked.
NoAudioListed(r) == listing[r] # None /\ \A f \in listing[r][1] : f.ext \notin AudioExts
C10_AudioArtifactMissing ==
    \A r \in Reqs : NoAudioListed(r) =>
        /\ pc[r] \in {"finally", "respond"}
        /\ "transcribe" \notin Stages(r)
        /\ transcription[r] = NoTranscription
        /\ outcome[r] = [status |-> 500,
                         detail |-> <<"Audio file not found after download">>]
        /\ Handled(r) => response[r] = outcome[r]

C10_Witness ==
    \E r \in Reqs :
        /\ Handled(r) /\ listing[r] = Some({FileC}) /\ dl[r][1] = "ok"
        /\ response[r].status = 500

AcceptedListed(r) == {f \in listing[r][1] : IsAudio(f)}
Ambiguous(r) == listing[r] # None /\ Cardinality(AcceptedListed(r)) > 1

\* C11 (as stated): when the download is over and the working directory holds more
\* than one file with an accepted audio extension, /transcribe fails with "Audio
\* file not found after download" and transcribes none of the files.
C11_AmbiguousMatchFails ==
    \A r \in Reqs :
        Handled(r) /\ Ambiguous(r) =>
            /\ fault[r] = Some(AudioArtifactMissing)
            /\ "transcribe" \notin Stages(r)

\* C11 (amended): with more than one accepted file in the working directory the
\* scan takes one of them, the first that os.listdir gives, does not raise "Audio
\* file not found after download", and the request goes on to transcribe that file.
C11_FirstAcceptedFileIsTranscribed ==
    \A r \in Reqs :
        Ambiguous(r) =>
            /\ audio_file[r] \in AcceptedListed(r)
            /\ fault[r] # Some(AudioArtifactMissing)
            /\ pc[r] = "transcribe" \/ "transcribe" \in Stages(r)

C11_Witness ==
    \E r \in Reqs :
        /\ Handled(r) /\ listing[r] = Some({FileA, FileB})
        /\ response[r].status = 200

TranscriptionFailed(r) == "transcribe" \in Stages(r) /\ fault[r] # None

\* C12: when the transcription service fails, the request fails with HTTP 500
\* "Transcription failed: <text>", the summarizer is not invoked and no result
\* with success = true is built.
C12_TranscriptionFailureIs500 ==
    \A r \in Reqs :
        TranscriptionFailed(r) =>
            /\ outcome[r].status = 500
            /\ outcome[r].detail = <<"Transcription failed: ", fault[r][1].text>>
            /\ "summarize" \notin Stages(r) /\ sm[r] = <<>>
            /\ "assemble" \notin Stages(r)
            /\ Handled(r) => response[r] = outcome[r]

C12_Witness ==
    \E r \in Reqs :
        /\ Handled(r) /\ TranscriptionFailed(r)
        /\ response[r] = [status |-> 500, detail |-> <<"Transcription failed: ", "unreachable">>]

SummarizerFailed(r) == sm[r] # <<>> /\ sm[r][1] = "Exception"

\* C13: when download and transcription succeed and the summarizer raises, the
\* request still answers success = true, with the transcript and the segments of
\* the transcription and the empty string as summary.
C13_SummarizerFailureIsNotFatal ==
    \A r \in Reqs :
        SummarizerFailed(r) =>
            /\ fault[r] = None
            /\ summary[r] = <<>>
            /\ Handled(r) =>
                  /\ response[r].status = 200
                  /\ response[r].body.success
                  /\ response[r].body.summary = <<>>
                  /\ response[r].body.transcript = Strip(transcription[r].text)
                  /\ response[r].body.segments = ResponseSegments(transcription[r])

C13_Witness ==
    \E r \in Reqs :
        /\ Handled(r) /\ SummarizerFailed(r)
        /\ response[r].body.transcript = <<"h", "i">>
        /\ Len(response[r].body.segments) = 1

Transcribed(r) == transcription[r] # NoTranscription

\* C14: the summarizer is invoked only when the transcript, trimmed, is not empty;
\* when it is empty the summarizer is not called and the request still answers
\* success = true.
C14_SummarizerOnlyForNonEmptyTranscript ==
    \A r \in Reqs :
        /\ "summarize" \in Stages(r) \/ sm[r] # <<>> =>
              Transcribed(r) /\ Strip(transcription[r].text) # <<>>
        /\ Handled(r) /\ Transcribed(r) /\ Strip(transcription[r].text) = <<>> =>
              /\ "summarize" \notin Stages(r) /\ sm[r] = <<>>
              /\ response[r].status = 200
              /\ response[r].body.success
              /\ response[r].body.summary = <<>>

C14_Witness ==
    \E r \in Reqs :
        /\ Handled(r) /\ Transcribed(r) /\ transcription[r].text = <<" ">>
        /\ response[r].status = 200 /\ "summarize" \notin Stages(r)

MetadataFailed(r) == md[r] = <<"Exception">>

\* C15: a failure of the metadata fetch does not abort the request: the handler
\* goes on to create the directory and to download, and a result it then builds
\* has success = true and neither title nor thumbnail.
C15_MetadataFailureIsNotFatal ==
    \A r \in Reqs :
        IsTranscribe(r) /\ MetadataFailed(r) =>
            /\ metadata[r] = EmptyDict
            /\ Len(trace[r]) = 1 => pc[r] = "mkdtemp" /\ fault[r] = None /\ outcome[r] = NoOutcome
            /\ Len(trace[r]) > 1 => trace[r][2] = "mkdtemp"
            /\ Len(trace[r]) > 2 => trace[r][3] = "download" \/ fault[r] # None
            /\ Handled(r) /\ response[r].status = 200 =>
                  /\ response[r].body.success
                  /\ response[r].body.title = None
                  /\ response[r].body.thumbnail = None

C15_Witness ==
    \E r \in Reqs :
        /\ IsTranscribe(r) /\ Handled(r) /\ MetadataFailed(r) /\ "download" \in Stages(r)
        /\ response[r].status = 200 /\ response[r].body.title = None

\* C16: an exception that leaves a stage of /transcribe is answered with HTTP 500
\* "Transcription failed: <its text>", except an HTTPException a stage raised,
\* which keeps its own status code and detail.
C16_FaultsSurfaceAs500UnlessMapped ==
    \A r \in Reqs :
        IsTranscribe(r) /\ Handled(r) /\ fault[r] # None =>
            LET exc == fault[r][1]
            IN  IF exc.type = "HTTPException"
                THEN /\ response[r].status = exc.status
                     /\ response[r].detail = exc.detail
                ELSE /\ response[r].status = 500
                     /\ response[r].detail = <<"Transcription failed: ", exc.text>>

C16_Witness ==
    \E r \in Reqs :
        /\ IsTranscribe(r) /\ Handled(r) /\ fault[r] # None
        /\ fault[r][1].type = "HTTPException"
        /\ response[r] = [status |-> 400,
                          detail |-> <<"Failed to download video: ", "unreachable">>]

IsScript(r) == req[r].kind = "script"

\* C17: a /generate-script request with an empty transcript or an empty prompt is
\* answered with HTTP 400 and the generator is not called for it.
C17_EmptyFieldsRejected ==
    \A r \in Reqs :
        IsScript(r) /\ (req[r].transcript = <<>> \/ req[r].prompt = <<>>) =>
            /\ pc[r] # "generate" /\ "generate" \notin Stages(r)
            /\ Handled(r) => response[r].status = 400

C17_Witness ==
    \E r \in Reqs :
        /\ IsScript(r) /\ Handled(r)
        /\ req[r].transcript # <<>> /\ req[r].prompt = <<>>
        /\ response[r] = [status |-> 400, detail |-> <<"Prompt is required">>]

GenerationFailed(r) == IsScript(r) /\ "generate" \in Stages(r) /\ fault[r] # None

\* C18: when the generator fails on a valid /generate-script request, the request
\* is answered with HTTP 500 "Script generation failed: <text>"; no result with
\* success = true or with a script is returned.
C18_GeneratorFailureIs500 ==
    \A r \in Reqs :
        GenerationFailed(r) =>
            /\ response[r].status = 500
            /\ "body" \notin DOMAIN response[r]
            /\ response[r].detail = <<"Script generation failed: ", fault[r][1].text>>

C18_Witness ==
    \E r \in Reqs :
        /\ Handled(r) /\ GenerationFailed(r)
        /\ req[r].transcript # <<>> /\ req[r].prompt # <<>>
        /\ response[r].status = 500

Called == messages # None
SystemBaseSent == messages[1].system[2]

\* C19: generate_script sends the instruction text of the template asked for when
\* that is one of custom, twitter, blog, youtube, linkedin, newsletter, and the
\* text of custom for every other template, named or left out.
C19_TemplateSelectsInstructions ==
    Called =>
        LET t == call.template
        IN  /\ t = Some("twitter") =>
                 SystemBaseSent = "Create an engaging Twitter/X thread (5-10 tweets) from this content."
            /\ t = Some("blog") =>
                 SystemBaseSent = "Write a well-structured blog post from this content."
            /\ t = Some("youtube") =>
                 SystemBaseSent = "Write a YouTube video script based on this content."
            /\ t = Some("linkedin") =>
                 SystemBaseSent = "Create a professional LinkedIn post from this content."
            /\ t = Some("newsletter") =>
                 SystemBaseSent = "Write an email newsletter from this content."
            /\ t \notin {Some(n) : n \in {"twitter", "blog", "youtube", "linkedin", "newsletter"}} =>
                 SystemBaseSent =
                    "Follow the user's instructions to create content based on the transcript."

C19_Witness ==
    /\ Called /\ call.template = Some("podcast")
    /\ SystemBaseSent = "Follow the user's instructions to create content based on the transcript."

TranscriptSent == messages[1].user[2]

\* C20: of the transcript, the messages sent to the generator hold a prefix of at
\* most 6000 characters and nothing else, and the whole transcript when it is no
\* longer than that.
C20_TranscriptCutTo6000 ==
    Called =>
        /\ Len(TranscriptSent) <= 6000
        /\ Len(TranscriptSent) <= Len(call.transcript)
        /\ \A i \in 1..Len(TranscriptSent) : TranscriptSent[i] = call.transcript[i]
        /\ Len(call.transcript) <= 6000 => Len(TranscriptSent) = Len(call.transcript)
        /\ Len(call.transcript) > 6000 => Len(TranscriptSent) = 6000
        /\ Len(messages[1].user) = 5
        /\ messages[1].user[1] = "Here is the video transcript:"
        /\ messages[1].user[3] = "User's request: "
        /\ messages[1].user[4] = call.prompt
        /\ Len(messages[1].system) = 3
        /\ messages[1].system[1] = "You are an expert content writer and scriptwriter."
        /\ SystemBaseSent \in {template_prompts[n] : n \in DOMAIN template_prompts}
        /\ messages[1].system[3] = "Guidelines:"

C20_Witness ==
    /\ Called /\ Len(call.transcript) = 6001
    /\ Len(TranscriptSent) = 6000

IsMetadata(r) == req[r].kind = "metadata"

\* C21: when the metadata lookup of the downloader fails, /metadata answers HTTP
\* 400 and never a result with success = true.
C21_MetadataLookupFailureIs400 ==
    \A r \in Reqs :
        IsMetadata(r) /\ Handled(r) /\ MetadataFailed(r) =>
            /\ response[r].status = 400
            /\ "body" \notin DOMAIN response[r]
            /\ response[r].detail = <<"Could not fetch metadata">>

C21_Witness ==
    \E r \in Reqs :
        /\ IsMetadata(r) /\ Handled(r) /\ MetadataFailed(r)
        /\ response[r].status = 400

Succeeded(r) == IsTranscribe(r) /\ Handled(r) /\ response[r].status = 200

\* C22: in a successful /transcribe result the language is "unknown" when the
\* transcription names none, and the duration is absent when the transcription
\* names none or names zero.
C22_LanguageAndDurationDefaults ==
    \A r \in Reqs :
        Succeeded(r) =>
            LET t == transcription[r]
            IN  /\ "language" \notin DOMAIN t => response[r].body.language = "unknown"
                /\ "language" \in DOMAIN t => response[r].body.language = t.language
                /\ "duration" \notin DOMAIN t \/ t.duration = 0 =>
                      response[r].body.duration = None

C22_Witness ==
    \E r \in Reqs :
        /\ Succeeded(r) /\ DOMAIN transcription[r] = {"text"}
        /\ response[r].body.language = "unknown"
        /\ response[r].body.duration = None

DownloadErrorRaised(r) == dl[r] # <<>> /\ dl[r][1] = "DownloadError"

\* C30: /transcribe answers HTTP 400 only when the downloader raised its
\* DownloadError; every other exception that ends the request, one of another
\* kind from the downloader and the failure of mkdtemp among them, is answered
\* with HTTP 500, and after a failed mkdtemp no removal is attempted.
C30_Only400IsDownloadError ==
    \A r \in Reqs :
        IsTranscribe(r) /\ Handled(r) =>
            /\ response[r].status = 400 => DownloadErrorRaised(r)
            /\ fault[r] # None /\ ~DownloadErrorRaised(r) => response[r].status = 500
            /\ "mkdtemp" \in Stages(r) /\ temp_dir[r] = NoDir =>
                  /\ response[r].status = 500
                  /\ rmAttempts[r] = 0

C30_Witness ==
    \E r \in Reqs :
        /\ IsTranscribe(r) /\ Handled(r)
        /\ dl[r] # <<>> /\ dl[r][1] = "Exception"
        /\ response[r].status = 500

\* reading a timestamp back: the digits before the last three fields are the hours
DigitValue(c) == CHOOSE d \in 0..9 : DigitChars[d + 1] = c
IsDigits(str) == \A i \in 1..Len(str) : \E d \in 0..9 : DigitChars[d + 1] = str[i]

RECURSIVE Num(_)
Num(str) ==
    IF str = <<>> THEN 0
    ELSE 10 * Num(SubSeq(str, 1, Len(str) - 1)) + DigitValue(str[Len(str)])

HoursField(str) == SubSeq(str, 1, Len(str) - 10)
MinutesField(str) == SubSeq(str, Len(str) - 8, Len(str) - 7)
SecsField(str) == SubSeq(str, Len(str) - 5, Len(str) - 4)
MillisField(str) == SubSeq(str, Len(str) - 2, Len(str))

WellFormedStamp(str, sep) ==
    /\ Len(str) >= 12
    /\ IsDigits(HoursField(str)) /\ IsDigits(MinutesField(str))
    /\ IsDigits(SecsField(str)) /\ IsDigits(MillisField(str))
    /\ str[Len(str) - 9] = ":" /\ str[Len(str) - 6] = ":" /\ str[Len(str) - 3] = sep
    /\ Num(MinutesField(str)) <= 59 /\ Num(SecsField(str)) <= 59

ParseTimestamp(str) ==
    Num(HoursField(str)) * 3600000 + Num(MinutesField(str)) * 60000
        + Num(SecsField(str)) * 1000 + Num(MillisField(str))

\* C23: for every time of whole milliseconds both formatters give HH:MM:SS<sep>mmm
\* with HH the whole hours on two digits or more, MM and SS at most 59 and mmm the
\* milliseconds, so that reading the string back gives the time; sep is ',' for
\* SRT and '.' for VTT and nothing else differs.
C23_TimestampsReadBackExactly ==
    stamps # None =>
        LET a == stamps[1].srt
            b == stamps[1].vtt
        IN  /\ WellFormedStamp(a, ",")
            /\ WellFormedStamp(b, ".")
            /\ Num(HoursField(a)) = seconds \div 3600000
            /\ ParseTimestamp(a) = seconds
            /\ ParseTimestamp(b) = seconds
            /\ Len(a) = Len(b)
            /\ \A i \in 1..Len(a) : i # Len(a) - 3 => a[i] = b[i]

\* the documents the claims describe
RECURSIVE ClaimedBlocks(_, _, _)
ClaimedBlocks(segs, i, format) ==
    IF i > Len(segs) THEN <<>>
    ELSE LET start == IF format = "srt" THEN format_timestamp(segs[i].start)
                      ELSE format_vtt_timestamp(segs[i].start)
             end == IF format = "srt" THEN format_timestamp(segs[i].end)
                    ELSE format_vtt_timestamp(segs[i].end)
         IN  Str(i) \o NL \o start \o Arrow \o end \o NL \o Strip(segs[i].text) \o NL \o NL
                 \o ClaimedBlocks(segs, i + 1, format)

Exported(format) == {i \in DOMAIN exports : exports[i].format = format}

\* C24: for N > 0 segments an SRT export is N blocks in the order of the segments,
\* block i being the line i, the line 'start --> end' with comma timestamps, the
\* stripped text with its inner newlines, and a blank line, after the last block
\* too.
C24_SrtBlocks ==
    \A i \in Exported("srt") :
        segments # <<>> =>
            /\ exports[i].kind = "document"
            /\ exports[i].doc = ClaimedBlocks(segments, 1, "srt")

\* C25: for N > 0 segments a VTT export is the line WEBVTT, a blank line, and for
\* each segment in order the line i, the line 'start --> end' with dot timestamps,
\* the stripped text and a blank line; WEBVTT is the first line and is emitted once.
C25_VttHeaderAndBlocks ==
    \A i \in Exported("vtt") :
        segments # <<>> =>
            /\ exports[i].kind = "document"
            /\ exports[i].doc = WEBVTT \o NL \o NL \o ClaimedBlocks(segments, 1, "vtt")

\* C26: an export of no segments, SRT or VTT, gives its caller the "no data"
\* condition and no document, empty or of the header only.
C26_EmptyExportIsNoData ==
    \A i \in DOMAIN exports :
        segments = <<>> =>
            /\ exports[i].kind = "nodata"
            /\ exports[i].message = "No timestamp data available"

\* reading an SRT document back: its lines, then block after block the index line,
\* the timing line and the text up to the blank line
RECURSIVE SplitLines(_, _)
SplitLines(doc, line) ==
    IF doc = <<>> THEN <<line>>
    ELSE IF Head(doc) = "\n" THEN <<line>> \o SplitLines(Tail(doc), <<>>)
    ELSE SplitLines(Tail(doc), Append(line, Head(doc)))

RECURSIVE FirstBlank(_, _)
FirstBlank(ls, k) == IF k > Len(ls) \/ ls[k] = <<>> THEN k ELSE FirstBlank(ls, k + 1)

RECURSIVE FirstSpace(_, _)
FirstSpace(str, k) == IF k > Len(str) \/ str[k] = " " THEN k ELSE FirstSpace(str, k + 1)

Unreadable == [start |-> -1, end |-> -1, text |-> <<>>]

ParseTiming(index, timing, text) ==
    LET k == FirstSpace(timing, 1)
        a == SubSeq(timing, 1, k - 1)
        b == SubSeq(timing, k + Len(Arrow), Len(timing))
    IN  IF /\ index # <<>> /\ IsDigits(index)
           /\ SubSeq(timing, k, k + Len(Arrow) - 1) = Arrow
           /\ WellFormedStamp(a, ",") /\ WellFormedStamp(b, ",")
        THEN [start |-> ParseTimestamp(a), end |-> ParseTimestamp(b), text |-> text]
        ELSE Unreadable

RECURSIVE ParseBlocks(_)
ParseBlocks(ls) ==
    IF ls = <<>> THEN <<>>
    ELSE IF ls[1] = <<>> THEN ParseBlocks(Tail(ls))
    ELSE IF Len(ls) < 2 THEN <<Unreadable>>
    ELSE LET k == FirstBlank(ls, 3)
         IN  <<ParseTiming(ls[1], ls[2], Join(SubSeq(ls, 3, k - 1)))>>
                 \o ParseBlocks(SubSeq(ls, k, Len(ls)))

ParseSRT(doc) == ParseBlocks(SplitLines(doc, <<>>))

Trimmed(segs) ==
    [i \in 1..Len(segs) |->
        [start |-> segs[i].start, end |-> segs[i].end, text |-> Strip(segs[i].text)]]

\* C27: reading an SRT export of N segments back gives N segments, equal to the
\* exported ones with their text stripped.
C27_SrtRoundTrip ==
    \A i \in Exported("srt") :
        exports[i].kind = "document" => ParseSRT(exports[i].doc) = Trimmed(segments)

\* C28: two exports of the same segments by the same encoder give the same
\* document, whatever was exported in between, and the segments stay as they were.
C28_EncodingDeterministic ==
    \A i, j \in DOMAIN exports :
        /\ exports[i].of = segments
        /\ exports[i].by = exports[j].by /\ exports[i].format = exports[j].format =>
              exports[i] = exports[j]

C28_Witness ==
    /\ Len(segments) = 2 /\ Len(exports) = 3
    /\ exports[1].by = "server" /\ exports[1].format = "srt"
    /\ exports[2].by = "server" /\ exports[2].format = "vtt"
    /\ exports[3] = exports[1]

\* C29: for N > 0 segments the server's encoders and the page's encoders give the
\* same document, character for character, in SRT and in VTT.
C29_ServerAndClientAgree ==
    \A i, j \in DOMAIN exports :
        segments # <<>> /\ exports[i].format = exports[j].format =>
            exports[i].doc = exports[j].doc

====
